---- MODULE Spec2Model ----
(***************************************************************************)
(* Model of app.py of the METEK sonic-3D sampler plugin: DeviceConnection  *)
(* (USB readline or TCP login handshake plus "\r\n" line framing), the     *)
(* record parser of read_and_parse_data, publish_data and the acquisition  *)
(* loop of run_device_interface.                                           *)
(*                                                                         *)
(* A byte is a one-character string; BAD stands for a byte (0xFF) that is  *)
(* no valid UTF-8.  A byte string is a sequence of bytes.                  *)
(***************************************************************************)
EXTENDS Integers, Sequences, FiniteSets, TLC

CR == "\r"
LF == "\n"
SP == " "
SEMI == ";"
BAD == "0xFF"
CRLF == <<CR, LF>>

Whitespace == {SP, CR, LF}
Digits == {"1", "2"}

DigitVal(c) == IF c = "1" THEN 1 ELSE 2

Min(a, b) == IF a < b THEN a ELSE b

(***************************************************************************)
(* bytes.find(pat): the first index at which pat occurs in s, 0 when it    *)
(* does not occur (`pat in s` is IndexOf(s, pat) # 0).                      *)
(***************************************************************************)
OccursAt(s, pat, i) ==
    /\ i >= 1
    /\ i + Len(pat) - 1 <= Len(s)
    /\ \A j \in 1..Len(pat) : s[i + j - 1] = pat[j]

IndexOf(s, pat) ==
    IF \E i \in 1..Len(s) : OccursAt(s, pat, i)
    THEN CHOOSE i \in 1..Len(s) :
            /\ OccursAt(s, pat, i)
            /\ \A k \in 1..(i - 1) : ~OccursAt(s, pat, k)
    ELSE 0

Contains(s, pat) == IndexOf(s, pat) # 0

(* a variant that splits at the last terminator (rsplit) *)
SplitLast(buf) ==
    LET i == CHOOSE k \in 1..Len(buf) :
                /\ OccursAt(buf, CRLF, k)
                /\ \A j \in (k + 1)..Len(buf) : ~OccursAt(buf, CRLF, j)
    IN  [line |-> SubSeq(buf, 1, i - 1),
         rest |-> SubSeq(buf, i + 2, Len(buf))]

(* bytes.split(b"\r\n", 1) of a buffer that contains the terminator *)
SplitFirst(buf) ==
    LET i == IndexOf(buf, CRLF)
    IN  [line |-> SubSeq(buf, 1, i - 1),
         rest |-> SubSeq(buf, i + 2, Len(buf))]

(* bytes.decode("utf-8"): fails on a byte that is not valid UTF-8 *)
Decodable(b) == \A i \in 1..Len(b) : b[i] # BAD

(* str.rstrip() *)
RECURSIVE RStrip(_)
RStrip(s) ==
    IF s # <<>> /\ s[Len(s)] \in Whitespace
    THEN RStrip(SubSeq(s, 1, Len(s) - 1))
    ELSE s

(* str.lstrip(), used by float() on its argument *)
RECURSIVE LStrip(_)
LStrip(s) ==
    IF s # <<>> /\ s[1] \in Whitespace THEN LStrip(Tail(s)) ELSE s

(* str.split(";"): always at least one field *)
RECURSIVE SplitSemi(_)
SplitSemi(s) ==
    LET i == IndexOf(s, <<SEMI>>)
    IN  IF i = 0 THEN <<s>>
        ELSE <<SubSeq(s, 1, i - 1)>> \o SplitSemi(SubSeq(s, i + 1, Len(s)))

(* list[a:b] with 0 <= a <= b *)
Slice(l, a, b) == SubSeq(l, a + 1, Min(b, Len(l)))

(***************************************************************************)
(* float(token) on text over digits, "-", ".", whitespace and letters:     *)
(* surrounding whitespace is stripped, then an optional sign and           *)
(* digits[.digits] or .digits is required.  The number is kept exactly, as *)
(* mantissa m and count e of fraction digits (m / 10^e); no digit of the   *)
(* alphabet is 0, so two results are equal exactly when the numbers are.   *)
(***************************************************************************)
RECURSIVE DecVal(_)
DecVal(ds) ==
    IF ds = <<>> THEN 0
    ELSE 10 * DecVal(SubSeq(ds, 1, Len(ds) - 1)) + DigitVal(ds[Len(ds)])

AllDigits(ds) == \A i \in 1..Len(ds) : ds[i] \in Digits

Float(token) ==
    LET s == RStrip(LStrip(token))
        neg == s # <<>> /\ s[1] = "-"
        body == IF neg THEN Tail(s) ELSE s
        dot == IndexOf(body, <<".">>)
        ip == IF dot = 0 THEN body ELSE SubSeq(body, 1, dot - 1)
        fp == IF dot = 0 THEN <<>> ELSE SubSeq(body, dot + 1, Len(body))
    IN  IF AllDigits(ip) /\ AllDigits(fp) /\ Len(ip) + Len(fp) >= 1
        THEN [ok |-> TRUE,
              m |-> (IF neg THEN -1 ELSE 1) * DecVal(ip \o fp),
              e |-> Len(fp)]
        ELSE [ok |-> FALSE, m |-> 0, e |-> 0]

(* the texts of the exceptions the model tells apart *)
ExcDecode == "'utf-8' codec can't decode byte 0xff"
ExcIncomplete == "Empty or incomplete data line."
ExcFloat == "could not convert string to float"
ExcTransport == "transport error"
ExcSink == "publish failed"
ExcAuth == "Authentication failed."
ExcUnsupported == "Unsupported connection type."

(* dict(zip(keys, values)): the pairs in key order, cut to the shorter *)
ZipDict(keys, values) ==
    [i \in 1..Min(Len(keys), Len(values)) |-> [key |-> keys[i], value |-> values[i]]]

(***************************************************************************)
(* app.py 59/66 and 70-79: decode, rstrip, split on ";", keep fields 1..4, *)
(* check the count against data_names, convert, zip.  raw is the line as   *)
(* the transport delivered it; keys are the keys of data_names.            *)
(***************************************************************************)
(* a variant whose slice starts one field early ([0:4]) *)
PayloadFromField0(raw) == Slice(SplitSemi(RStrip(raw)), 0, 4)

PayloadOf(raw) == Slice(SplitSemi(RStrip(raw)), 1, 5)

(* a variant without the count check of app.py 71-73 *)
ParseLineUnchecked(raw, keys) ==
    IF ~Decodable(raw) THEN [ok |-> FALSE, exc |-> ExcDecode, data |-> <<>>]
    ELSE LET line == PayloadOf(raw)
             values == [i \in 1..Len(line) |-> Float(line[i])]
         IN  IF \E i \in 1..Len(line) : ~values[i].ok
             THEN [ok |-> FALSE, exc |-> ExcFloat, data |-> <<>>]
             ELSE [ok |-> TRUE, exc |-> "none",
                   data |-> ZipDict(keys, [i \in 1..Len(line) |->
                                              [m |-> values[i].m, e |-> values[i].e]])]

(* a variant whose check is only `if not line` *)
ParseLineEmptyCheckOnly(raw, keys) ==
    IF ~Decodable(raw) THEN [ok |-> FALSE, exc |-> ExcDecode, data |-> <<>>]
    ELSE LET line == PayloadOf(raw)
             values == [i \in 1..Len(line) |-> Float(line[i])]
         IN  IF line = <<>>
             THEN [ok |-> FALSE, exc |-> ExcIncomplete, data |-> <<>>]
             ELSE IF \E i \in 1..Len(line) : ~values[i].ok
             THEN [ok |-> FALSE, exc |-> ExcFloat, data |-> <<>>]
             ELSE [ok |-> TRUE, exc |-> "none",
                   data |-> ZipDict(keys, [i \in 1..Len(line) |->
                                              [m |-> values[i].m, e |-> values[i].e]])]

ParseLine(raw, keys) ==
    IF ~Decodable(raw) THEN [ok |-> FALSE, exc |-> ExcDecode, data |-> <<>>]
    ELSE LET line == PayloadOf(raw)
             values == [i \in 1..Len(line) |-> Float(line[i])]
         IN  IF line = <<>> \/ Len(line) < Len(keys)
             THEN [ok |-> FALSE, exc |-> ExcIncomplete, data |-> <<>>]
             ELSE IF \E i \in 1..Len(line) : ~values[i].ok
             THEN [ok |-> FALSE, exc |-> ExcFloat, data |-> <<>>]
             ELSE [ok |-> TRUE, exc |-> "none",
                   data |-> ZipDict(keys, [i \in 1..Len(line) |->
                                              [m |-> values[i].m, e |-> values[i].e]])]

(***************************************************************************)
(* The configuration of __main__ (app.py 145-168) and the values published *)
(***************************************************************************)
AllKeys == <<"U", "V", "W", "T", "X">>

(* data_names[key]; "X" stands for a fifth name a caller may add *)
PublishName(key) ==
    CASE key = "U" -> "sonic3d.uwind"
      [] key = "V" -> "sonic3d.vwind"
      [] key = "W" -> "sonic3d.wwind"
      [] key = "T" -> "sonic3d.temp"
      [] OTHER -> "sonic3d.extra"

Units(name) == IF name = "sonic3d.temp" THEN "degrees Celsius" ELSE "m/s"

Description(name) ==
    CASE name = "sonic3d.uwind" -> "zonal wind"
      [] name = "sonic3d.vwind" -> "meridional wind"
      [] name = "sonic3d.wwind" -> "vertical wind"
      [] name = "sonic3d.temp" -> "Ambient Temperature"
      [] OTHER -> "extra"

Sensor == "METEK-sonic3D"

AllNames == {PublishName(AllKeys[i]) : i \in 1..Len(AllKeys)}

(* str(KeyError(name)) *)
KeyErrorText(name) ==
    CASE name = "sonic3d.uwind" -> "'sonic3d.uwind'"
      [] name = "sonic3d.vwind" -> "'sonic3d.vwind'"
      [] name = "sonic3d.wwind" -> "'sonic3d.wwind'"
      [] name = "sonic3d.temp" -> "'sonic3d.temp'"
      [] OTHER -> "'sonic3d.extra'"

(* a published value: a number m / 10^e (s empty) or a text s *)
NumVal(v) == [s |-> "", m |-> v.m, e |-> v.e]
StrVal(t) == [s |-> t, m |-> 0, e |-> 0]

NoMeta == [missing |-> "", units |-> "", description |-> "", name |-> "",
           sensor |-> "", timestamp |-> 0]

(* one call plugin.publish(name, value, meta=..., timestamp=...); timestamp 0
   is "not given"; ok says whether the call returned (TRUE) or raised *)
Call(name, value, meta, ts) ==
    [name |-> name, value |-> value, meta |-> meta, timestamp |-> ts, ok |-> TRUE]

StatusCall(text) == Call("status", StrVal(text), NoMeta, 0)

(* app.py 89 *)
NoDataCall(ts) ==
    Call("status", StrVal("NoData"), [NoMeta EXCEPT !.timestamp = ts], 0)

(* a variant that reads the clock again for every field after the first *)
FieldCallOwnClock(key, value, ts) ==
    Call(PublishName(key), NumVal(value),
         [missing |-> "-9999.0", units |-> Units(PublishName(key)),
          description |-> Description(PublishName(key)),
          name |-> PublishName(key), sensor |-> Sensor, timestamp |-> 0],
         IF key = "U" THEN ts ELSE ts + 1)

(* app.py 97-109 *)
FieldCall(key, value, ts) ==
    Call(PublishName(key), NumVal(value),
         [missing |-> "-9999.0", units |-> Units(PublishName(key)),
          description |-> Description(PublishName(key)),
          name |-> PublishName(key), sensor |-> Sensor, timestamp |-> 0],
         ts)

InNames(key, keys) == \E i \in 1..Len(keys) : keys[i] = key

(***************************************************************************)
(* publish_data (app.py 84-112) with a sink that does not raise: the calls *)
(* it makes, in order.  m is the metadata table: the names that have a     *)
(* unit and the names that have a description.  A field whose lookup       *)
(* raises KeyError gets the status call of the except clause instead.      *)
(***************************************************************************)
ItemCall(item, m, ts) ==
    IF PublishName(item.key) \in m.units /\ PublishName(item.key) \in m.description
    THEN FieldCall(item.key, item.value, ts)
    ELSE StatusCall(KeyErrorText(PublishName(item.key)))

(* a variant without the try/except of app.py 95/110: the KeyError of a
   lookup ends the loop over the record *)
RECURSIVE ItemCallsAbortOnKeyError(_, _, _, _)
ItemCallsAbortOnKeyError(d, keys, m, ts) ==
    IF d = <<>> THEN <<>>
    ELSE IF ~InNames(d[1].key, keys)
    THEN ItemCallsAbortOnKeyError(Tail(d), keys, m, ts)
    ELSE IF ItemCall(d[1], m, ts).name = "status"
    THEN <<>>
    ELSE <<ItemCall(d[1], m, ts)>> \o ItemCallsAbortOnKeyError(Tail(d), keys, m, ts)

(* a variant that walks the record from its last entry to its first *)
RECURSIVE ItemCallsReversed(_, _, _, _)
ItemCallsReversed(d, keys, m, ts) ==
    IF d = <<>> THEN <<>>
    ELSE ItemCallsReversed(Tail(d), keys, m, ts)
         \o (IF InNames(d[1].key, keys) THEN <<ItemCall(d[1], m, ts)>> ELSE <<>>)

RECURSIVE ItemCalls(_, _, _, _)
ItemCalls(d, keys, m, ts) ==
    IF d = <<>> THEN <<>>
    ELSE (IF InNames(d[1].key, keys) THEN <<ItemCall(d[1], m, ts)>> ELSE <<>>)
         \o ItemCalls(Tail(d), keys, m, ts)

(* a variant without the early return of app.py 87-90 *)
PublishCallsNoEmptyCheck(d, keys, m, ts) == ItemCalls(d, keys, m, ts)

PublishCalls(d, keys, m, ts) ==
    IF d = <<>> THEN <<NoDataCall(ts)>> ELSE ItemCalls(d, keys, m, ts)

(* the calls made when the j-th call raises (j = 0: none raises) *)
CallsUntil(calls, j) ==
    IF j = 0 THEN calls
    ELSE SubSeq(calls, 1, j - 1) \o <<[calls[j] EXCEPT !.ok = FALSE]>>

(***************************************************************************)
(* The TCP login (app.py 41-48)                                            *)
(***************************************************************************)
AuthPhrase ==
    <<"a", "u", "t", "h", "e", "n", "t", "i", "c", "a", "t", "i", "o", "n", " ",
      "s", "u", "c", "c", "e", "s", "s", "f", "u", "l">>

UpperCase == <<"A", "B", "C", "D", "E", "F", "G", "H", "I", "J", "K", "L", "M",
               "N", "O", "P", "Q", "R", "S", "T", "U", "V", "W", "X", "Y", "Z">>
LowerCase == <<"a", "b", "c", "d", "e", "f", "g", "h", "i", "j", "k", "l", "m",
               "n", "o", "p", "q", "r", "s", "t", "u", "v", "w", "x", "y", "z">>

(* str.lower() *)
LowerChar(c) ==
    IF \E i \in 1..26 : UpperCase[i] = c
    THEN LowerCase[CHOOSE i \in 1..26 : UpperCase[i] = c]
    ELSE c

Lower(t) == [i \in 1..Len(t) |-> LowerChar(t[i])]

(* a variant with the test inverted (`in` for `not in`) *)
AuthAcceptedInverted(response) == ~Contains(Lower(response), AuthPhrase)

(* app.py 47: "authentication successful" in response.lower() *)
AuthAccepted(response) == Contains(Lower(response), AuthPhrase)

(* recv(4096) *)
RecvSize == 4096

(***************************************************************************)
(* The device and the values a run draws                                   *)
(***************************************************************************)
MaxLines == 1
MaxNames == 5
MaxClock == 2

Username == <<"u">>
Password == <<"p">>
Prompt1 == <<"l", ":">>
Prompt2 == <<"p", ":">>

(* what the device answers to the password; the empty answer comes with the
   device closing the connection *)
RespMixed ==
    <<"A", "u", "t", "h", "e", "n", "t", "i", "c", "a", "t", "i", "o", "n", " ",
      "S", "U", "C", "C", "E", "S", "S", "F", "U", "L">> \o CRLF
RespDenied == <<"d", "e", "n", "i", "e", "d">>
AuthResponses == {AuthPhrase, RespMixed, RespDenied, <<BAD>>, <<>>}

(* the answers with which the device accepts the login and starts to send *)
DeviceAccepts(r) == r \in {AuthPhrase, RespMixed}

(* lines the device sends: complete with two fields to spare, short,
   non-numeric, undecodable *)
LineGood == <<"x", ";", "1", ";", "2", ";", "-", "1", ";", ".", "2", ";", "x">>
LineShort == <<"x", ";", "1", ";", "2">>
LineNaN == <<"x", ";", "1", ";", "x", ";", "2", ";", "1">>
LineBad == <<BAD>>
SampleLines == {LineGood, LineShort, LineNaN, LineBad}

RECURSIVE StreamsOf(_)
StreamsOf(n) ==
    IF n = 0 THEN {<<>>}
    ELSE LET shorter == StreamsOf(n - 1)
         IN  shorter \cup {s \o l \o CRLF : s \in shorter, l \in SampleLines}

Streams == StreamsOf(MaxLines)

KeyAt(i) == IF i <= Len(AllKeys) THEN AllKeys[i] ELSE "Y"
NameLists == {[i \in 1..n |-> KeyAt(i)] : n \in 0..MaxNames}

MetaFull == [units |-> AllNames, description |-> AllNames]
MetaSamples ==
    {MetaFull,
     [units |-> AllNames \ {"sonic3d.vwind"}, description |-> AllNames],
     [units |-> AllNames, description |-> AllNames \ {"sonic3d.wwind"}]}

(* the configurations a run draws: every length of data_names with the full
   table, and the four names of __main__ with each table *)
Configs ==
    {<<n, MetaFull>> : n \in NameLists}
        \cup {<<[i \in 1..4 |-> KeyAt(i)], m>> : m \in MetaSamples}

Timestamps == 1..MaxClock

(***************************************************************************)
(* State                                                                   *)
(***************************************************************************)
VARIABLES
    connection_type,  \* args.connection_type
    data_names,       \* the keys of data_names, in order
    meta,             \* the names with a unit, the names with a description
    pc,               \* where run_device_interface stands
    buffer,           \* DeviceConnection.buffer
    response,         \* the local response of __init__
    data,             \* the record read_and_parse_data returned
    exc,              \* the text of the exception being handled or that ended the run
    wire,             \* bytes the device has sent and the program has not received
    peer_closed,      \* the device has closed: recv on an empty wire returns b""
    sock_log,         \* the socket calls __init__ made, in order
    pub_log,          \* the calls of plugin.publish of the current cycle, in order
    stream,           \* the bytes the data reads get, fixed when construction ends
    lines_out,        \* the raw lines read_and_parse_data has taken, in order
    last_recv,        \* the last recv of the current read_and_parse_data call:
                      \* "none" (no recv yet), "empty" (zero bytes) or "data"
    sent,             \* the fields of the line the device composed (SpecParse)
    slept,            \* time.sleep ran since the last call of read_and_parse_data
    read_attempted    \* read_and_parse_data has been called

vars == <<connection_type, data_names, meta, pc, buffer, response, data, exc, wire,
          peer_closed, sock_log, pub_log, stream, lines_out, last_recv, sent,
          slept, read_attempted>>

args == <<connection_type, data_names, meta>>
ghost == <<stream, lines_out, last_recv, sent, slept, read_attempted>>

SockCall(op, bytes) == [op |-> op, data |-> bytes]

(***************************************************************************)
(* socket.recv(4096): a chunk the call can return, with the wire left.     *)
(* Any non-empty prefix of the bytes in flight, up to 4096; zero bytes     *)
(* once the device has closed and nothing is in flight; otherwise the call *)
(* blocks.                                                                 *)
(***************************************************************************)
RecvLengths ==
    IF wire # <<>> THEN 1..Min(RecvSize, Len(wire))
    ELSE IF peer_closed THEN {0} ELSE {}

Init ==
    /\ connection_type \in {"usb", "tcp", "other"}
    /\ \E c \in Configs :
        /\ data_names = c[1]
        /\ meta = c[2]
    /\ pc = "start"
    /\ buffer = <<>>
    /\ response = <<>>
    /\ data = <<>>
    /\ exc = "none"
    /\ wire = <<>>
    /\ peer_closed = FALSE
    /\ sock_log = <<>>
    /\ pub_log = <<>>
    /\ stream = <<>>
    /\ lines_out = <<>>
    /\ last_recv = "none"
    /\ sent = <<>>
    /\ slept = FALSE
    /\ read_attempted = FALSE

(* a variant in which the failure is followed by a new attempt *)
ExitAndRetry(text) ==
    /\ pc' = "start"
    /\ exc' = text

(* an exception leaves run_device_interface: __main__ logs it (app.py 172) *)
Exit(text) ==
    /\ pc' = "exited"
    /\ exc' = text

(***************************************************************************)
(* DeviceConnection.__init__ (app.py 20-52)                                *)
(***************************************************************************)

(* app.py 25-34: the port opens and the device's lines start to arrive, or
   serial.Serial raises *)
UsbOpen ==
    /\ pc = "start"
    /\ connection_type = "usb"
    /\ \/ \E d \in Streams :
            /\ wire' = d
            /\ stream' = d
            /\ pc' = "sleep"
            /\ UNCHANGED exc
       \/ /\ Exit(ExcTransport)
          /\ UNCHANGED <<wire, stream>>
    /\ UNCHANGED <<args, buffer, response, data, peer_closed, sock_log, pub_log,
                   lines_out, last_recv, sent, slept, read_attempted>>

(* app.py 51-52 *)
Unsupported ==
    /\ pc = "start"
    /\ connection_type \notin {"usb", "tcp"}
    /\ Exit(ExcUnsupported)
    /\ UNCHANGED <<args, buffer, response, data, wire, peer_closed, sock_log,
                   pub_log, ghost>>

(* app.py 37-38: connect; the device greets with its first prompt *)
TcpConnect ==
    /\ pc = "start"
    /\ connection_type = "tcp"
    /\ \/ /\ sock_log' = Append(sock_log, SockCall("connect", <<>>))
          /\ wire' = Prompt1
          /\ pc' = "recv1"
          /\ UNCHANGED exc
       \/ /\ Exit(ExcTransport)
          /\ UNCHANGED <<sock_log, wire>>
    /\ UNCHANGED <<args, buffer, response, data, peer_closed, pub_log, ghost>>

(* app.py 41, 43: response = recv(4096).decode("utf-8") *)
HsRecv ==
    /\ pc \in {"recv1", "recv2"}
    /\ \E k \in RecvLengths :
        LET chunk == SubSeq(wire, 1, k)
        IN  /\ wire' = SubSeq(wire, k + 1, Len(wire))
            /\ sock_log' = Append(sock_log, SockCall("recv", <<>>))
            /\ IF Decodable(chunk)
               THEN /\ response' = chunk
                    /\ pc' = IF pc = "recv1" THEN "send_user" ELSE "send_pass"
                    /\ UNCHANGED exc
               ELSE /\ Exit(ExcDecode)
                    /\ UNCHANGED response
    /\ UNCHANGED <<args, buffer, data, peer_closed, pub_log, ghost>>

(* app.py 42: sendall(username + "\r\n"); the device answers with its
   second prompt *)
HsSendUser ==
    /\ pc = "send_user"
    /\ sock_log' = Append(sock_log, SockCall("sendall", Username \o CRLF))
    /\ wire' = wire \o Prompt2
    /\ pc' = "recv2"
    /\ UNCHANGED <<args, buffer, response, data, exc, peer_closed, pub_log, ghost>>

(* app.py 44: sendall(password + "\r\n"); the device answers, and after an
   answer that accepts the login it sends its lines; it may close after what
   it sent *)
HsSendPass ==
    /\ pc = "send_pass"
    /\ sock_log' = Append(sock_log, SockCall("sendall", Password \o CRLF))
    /\ \E r \in AuthResponses, d \in Streams, c \in BOOLEAN :
        /\ wire' = wire \o r \o (IF DeviceAccepts(r) THEN d ELSE <<>>)
        /\ peer_closed' = (c \/ r = <<>>)
    /\ pc' = "recv3"
    /\ UNCHANGED <<args, buffer, response, data, exc, pub_log, ghost>>

(* a variant that keeps what the third recv returned in the framing buffer *)
HsRecv3KeepsChunk ==
    /\ pc = "recv3"
    /\ \E k \in RecvLengths :
        LET chunk == SubSeq(wire, 1, k)
        IN  /\ wire' = SubSeq(wire, k + 1, Len(wire))
            /\ sock_log' = Append(sock_log, SockCall("recv", <<>>))
            /\ IF ~Decodable(chunk)
               THEN /\ Exit(ExcDecode)
                    /\ UNCHANGED <<response, stream, buffer>>
               ELSE IF ~AuthAccepted(chunk)
               THEN /\ Exit(ExcAuth)
                    /\ response' = chunk
                    /\ UNCHANGED <<stream, buffer>>
               ELSE /\ pc' = "sleep"
                    /\ response' = chunk
                    /\ buffer' = chunk
                    /\ stream' = wire'
                    /\ UNCHANGED exc
    /\ UNCHANGED <<args, data, peer_closed, pub_log, lines_out, last_recv,
                   sent, slept, read_attempted>>

(* app.py 46-50: the third response decides *)
HsRecv3 ==
    /\ pc = "recv3"
    /\ \E k \in RecvLengths :
        LET chunk == SubSeq(wire, 1, k)
        IN  /\ wire' = SubSeq(wire, k + 1, Len(wire))
            /\ sock_log' = Append(sock_log, SockCall("recv", <<>>))
            /\ IF ~Decodable(chunk)
               THEN /\ Exit(ExcDecode)
                    /\ UNCHANGED <<response, stream>>
               ELSE IF ~AuthAccepted(chunk)
               THEN /\ Exit(ExcAuth)
                    /\ response' = chunk
                    /\ UNCHANGED stream
               ELSE /\ pc' = "sleep"
                    /\ response' = chunk
                    /\ stream' = wire'
                    /\ UNCHANGED exc
    /\ UNCHANGED <<args, buffer, data, peer_closed, pub_log, lines_out, last_recv,
                   sent, slept, read_attempted>>

(* a socket call of __init__ raises (connection reset, timeout of the peer) *)
HsTransportError ==
    /\ pc \in {"recv1", "send_user", "recv2", "send_pass", "recv3"}
    /\ Exit(ExcTransport)
    /\ UNCHANGED <<args, buffer, response, data, wire, peer_closed, sock_log,
                   pub_log, ghost>>

(***************************************************************************)
(* run_device_interface (app.py 114-129)                                   *)
(***************************************************************************)

(* app.py 116-118: __init__ has returned (its local response is gone); the
   sleep of the outer loop *)
Sleep ==
    /\ pc = "sleep"
    /\ pc' = "loop"
    /\ slept' = TRUE
    /\ response' = <<>>
    /\ UNCHANGED <<args, buffer, data, exc, wire, peer_closed, sock_log,
                   pub_log, stream, lines_out, last_recv, sent, read_attempted>>

(* app.py 119-122: a cycle of the inner loop starts and calls
   read_and_parse_data *)
CallRead ==
    /\ pc = "loop"
    /\ pc' = "read"
    /\ data' = <<>>
    /\ exc' = "none"
    /\ pub_log' = <<>>
    /\ last_recv' = "none"
    /\ slept' = FALSE
    /\ read_attempted' = TRUE
    /\ UNCHANGED <<args, buffer, response, wire, peer_closed, sock_log, stream,
                   lines_out, sent>>

(* the end of read_and_parse_data on the line raw: it returns the record
   (app.py 79) and the loop goes on to publish_data, or it raises (app.py
   80-82) and the loop goes to its except clause *)
Parsed(raw) ==
    LET r == ParseLine(raw, data_names)
    IN  /\ lines_out' = Append(lines_out, raw)
        /\ data' = r.data
        /\ exc' = r.exc
        /\ pc' = IF r.ok THEN "publish" ELSE "handler"

(* a variant whose readline ends a line at "\r" *)
UsbReadlineToCR ==
    /\ pc = "read"
    /\ connection_type = "usb"
    /\ Contains(wire, <<CR>>)
    /\ LET i == IndexOf(wire, <<CR>>)
       IN  /\ wire' = SubSeq(wire, i + 1, Len(wire))
           /\ Parsed(SubSeq(wire, 1, i))
    /\ UNCHANGED <<args, buffer, response, peer_closed, sock_log, pub_log, stream,
                   last_recv, sent, slept, read_attempted>>

(* app.py 59: serial readline() returns the bytes up to and including the
   first "\n"; it blocks while there is none *)
UsbReadline ==
    /\ pc = "read"
    /\ connection_type = "usb"
    /\ Contains(wire, <<LF>>)
    /\ LET i == IndexOf(wire, <<LF>>)
       IN  /\ wire' = SubSeq(wire, i + 1, Len(wire))
           /\ Parsed(SubSeq(wire, 1, i))
    /\ UNCHANGED <<args, buffer, response, peer_closed, sock_log, pub_log, stream,
                   last_recv, sent, slept, read_attempted>>

(* a variant that keeps only the last chunk (= in place of +=) *)
TcpRecvOverwrite ==
    /\ pc = "read"
    /\ connection_type = "tcp"
    /\ ~Contains(buffer, CRLF)
    /\ \E k \in RecvLengths :
        /\ buffer' = SubSeq(wire, 1, k)
        /\ wire' = SubSeq(wire, k + 1, Len(wire))
        /\ last_recv' = IF k = 0 THEN "empty" ELSE "data"
    /\ UNCHANGED <<args, pc, response, data, exc, peer_closed, sock_log, pub_log,
                   stream, lines_out, sent, slept, read_attempted>>

(* app.py 62-63: the buffer holds no terminator, one more recv is appended *)
TcpRecv ==
    /\ pc = "read"
    /\ connection_type = "tcp"
    /\ ~Contains(buffer, CRLF)
    /\ \E k \in RecvLengths :
        /\ buffer' = buffer \o SubSeq(wire, 1, k)
        /\ wire' = SubSeq(wire, k + 1, Len(wire))
        /\ last_recv' = IF k = 0 THEN "empty" ELSE "data"
    /\ UNCHANGED <<args, pc, response, data, exc, peer_closed, sock_log, pub_log,
                   stream, lines_out, sent, slept, read_attempted>>

(* a variant that forgets what the chunk held behind the first line *)
TcpExtractDropsRest ==
    /\ pc = "read"
    /\ connection_type = "tcp"
    /\ Contains(buffer, CRLF)
    /\ buffer' = <<>>
    /\ Parsed(SplitFirst(buffer).line)
    /\ UNCHANGED <<args, response, wire, peer_closed, sock_log, pub_log, stream,
                   last_recv, sent, slept, read_attempted>>

(* a variant that takes the line out of the buffer only once it has parsed *)
TcpExtractKeepsBadLine ==
    /\ pc = "read"
    /\ connection_type = "tcp"
    /\ Contains(buffer, CRLF)
    /\ buffer' = IF ParseLine(SplitFirst(buffer).line, data_names).ok
                 THEN SplitFirst(buffer).rest
                 ELSE buffer
    /\ Parsed(SplitFirst(buffer).line)
    /\ UNCHANGED <<args, response, wire, peer_closed, sock_log, pub_log, stream,
                   last_recv, sent, slept, read_attempted>>

(* app.py 65-66 and 70-82: the buffer holds a terminator; split at the
   first one and parse the line *)
TcpExtract ==
    /\ pc = "read"
    /\ connection_type = "tcp"
    /\ Contains(buffer, CRLF)
    /\ buffer' = SplitFirst(buffer).rest
    /\ Parsed(SplitFirst(buffer).line)
    /\ UNCHANGED <<args, response, wire, peer_closed, sock_log, pub_log, stream,
                   last_recv, sent, slept, read_attempted>>

(* the transport raises inside readline or recv (app.py 59, 63); no recv is
   made once the buffer holds a terminator *)
ReadTransportError ==
    /\ pc = "read"
    /\ connection_type = "tcp" => ~Contains(buffer, CRLF)
    /\ exc' = ExcTransport
    /\ pc' = "handler"
    /\ UNCHANGED <<args, buffer, response, data, wire, peer_closed, sock_log,
                   pub_log, ghost>>

(* app.py 125: publish_data; the sink may raise in any of its calls, which
   ends publish_data with that exception *)
PublishData ==
    /\ pc = "publish"
    /\ \E ts \in Timestamps :
        LET calls == PublishCalls(data, data_names, meta, ts)
        IN  \E j \in 0..Len(calls) :
                /\ pub_log' = pub_log \o CallsUntil(calls, j)
                /\ pc' = IF j = 0 THEN "loop" ELSE "handler"
                /\ exc' = IF j = 0 THEN exc ELSE ExcSink
    /\ UNCHANGED <<args, buffer, response, data, wire, peer_closed, sock_log, ghost>>

(* a variant whose except clause publishes nothing *)
HandlerSilent ==
    /\ pc = "handler"
    /\ pc' = "loop"
    /\ UNCHANGED <<args, buffer, response, data, exc, wire, peer_closed, sock_log,
                   pub_log, ghost>>

(* app.py 126-129: the except clause logs, publishes the text of the
   exception as status and continues; when that publish raises, the
   exception leaves the loop and run_device_interface *)
Handler ==
    /\ pc = "handler"
    /\ \/ /\ pub_log' = Append(pub_log, StatusCall(exc))
          /\ pc' = "loop"
          /\ UNCHANGED exc
       \/ /\ pub_log' = Append(pub_log, [StatusCall(exc) EXCEPT !.ok = FALSE])
          /\ Exit(ExcSink)
    /\ UNCHANGED <<args, buffer, response, data, wire, peer_closed, sock_log, ghost>>

Next ==
    \/ UsbOpen
    \/ Unsupported
    \/ TcpConnect
    \/ HsRecv
    \/ HsSendUser
    \/ HsSendPass
    \/ HsRecv3
    \/ HsTransportError
    \/ Sleep
    \/ CallRead
    \/ UsbReadline
    \/ TcpRecv
    \/ TcpExtract
    \/ ReadTransportError
    \/ PublishData
    \/ Handler

Spec == Init /\ [][Next]_vars

(***************************************************************************)
(* The line framing on arbitrary byte streams: a TCP connection right      *)
(* after construction and the sleep, with any stream over a small alphabet *)
(* in flight, cut into recv chunks in every way.                           *)
(***************************************************************************)
MaxStream == 5

FrameAlphabet == {CR, LF, SEMI, "1"}

RECURSIVE ByteStrings(_)
ByteStrings(n) ==
    IF n = 0 THEN {<<>>}
    ELSE LET shorter == ByteStrings(n - 1)
         IN  shorter \cup {Append(b, c) : b \in {x \in shorter : Len(x) = n - 1},
                                          c \in FrameAlphabet}

(* the socket calls of a login that succeeded *)
LoginLog ==
    <<SockCall("connect", <<>>), SockCall("recv", <<>>),
      SockCall("sendall", Username \o CRLF), SockCall("recv", <<>>),
      SockCall("sendall", Password \o CRLF), SockCall("recv", <<>>)>>

InitFrame ==
    /\ connection_type = "tcp"
    /\ data_names \in {<<>>, <<"U">>}
    /\ meta = MetaFull
    /\ pc = "loop"
    /\ buffer = <<>>
    /\ response = <<>>
    /\ data = <<>>
    /\ exc = "none"
    /\ wire \in ByteStrings(MaxStream)
    /\ peer_closed \in BOOLEAN
    /\ sock_log = LoginLog
    /\ pub_log = <<>>
    /\ stream = wire
    /\ lines_out = <<>>
    /\ last_recv = "none"
    /\ sent = <<>>
    /\ slept = TRUE
    /\ read_attempted = FALSE

NextFrame ==
    \/ CallRead
    \/ TcpRecv
    \/ TcpExtract
    \/ ReadTransportError
    \/ PublishData
    \/ Handler

SpecFrame == InitFrame /\ [][NextFrame]_vars

(***************************************************************************)
(* The record parser on composed lines: a connection inside                *)
(* read_and_parse_data with one line of the device delivered, terminated   *)
(* by "\r\n" (in the buffer after one recv for TCP, in the port's input    *)
(* for USB).  The line is field 0, up to 4 payload fields and, behind 4    *)
(* payload fields, up to MaxExtra more.                                    *)
(***************************************************************************)
MaxExtra == 1

(* numerals with the numbers Python's float() gives them *)
TokOne == <<"1">>
TokNeg == <<"-", "2", ".", "1">>
TokFrac == <<SP, ".", "2">>
NumTokens == {TokOne, TokNeg, TokFrac}

NumberOf(token) ==
    CASE token = TokOne -> [m |-> 1, e |-> 0]
      [] token = TokNeg -> [m |-> -21, e |-> 1]
      [] token = TokFrac -> [m |-> 2, e |-> 1]

(* tokens float() rejects *)
OtherTokens == {<<>>, <<"x">>}

PayloadTokens == NumTokens \cup OtherTokens
Field0Tokens == {<<>>, <<"x">>, <<BAD>>}
ExtraTokens == {<<"x">>, <<BAD>>}

RECURSIVE TokenLists(_, _)
TokenLists(tokens, n) ==
    IF n = 0 THEN {<<>>}
    ELSE LET shorter == TokenLists(tokens, n - 1)
         IN  shorter \cup {Append(l, t) : l \in {x \in shorter : Len(x) = n - 1},
                                          t \in tokens}

FieldLists ==
    UNION {{<<f0>> \o p \o x :
                f0 \in Field0Tokens,
                x \in IF Len(p) = 4 THEN TokenLists(ExtraTokens, MaxExtra) ELSE {<<>>}} :
            p \in TokenLists(PayloadTokens, 4)}

(* ";".join(fields) *)
RECURSIVE JoinSemi(_)
JoinSemi(fields) ==
    IF fields = <<>> THEN <<>>
    ELSE IF Len(fields) = 1 THEN fields[1]
    ELSE fields[1] \o <<SEMI>> \o JoinSemi(Tail(fields))

InitParse ==
    /\ connection_type \in {"usb", "tcp"}
    /\ data_names \in NameLists
    /\ meta = MetaFull
    /\ pc = "read"
    /\ response = <<>>
    /\ data = <<>>
    /\ exc = "none"
    /\ sent \in FieldLists
    /\ buffer = IF connection_type = "tcp" THEN JoinSemi(sent) \o CRLF ELSE <<>>
    /\ wire = IF connection_type = "usb" THEN JoinSemi(sent) \o CRLF ELSE <<>>
    /\ peer_closed = FALSE
    /\ sock_log = IF connection_type = "tcp" THEN LoginLog ELSE <<>>
    /\ pub_log = <<>>
    /\ stream = JoinSemi(sent) \o CRLF
    /\ lines_out = <<>>
    /\ last_recv = IF connection_type = "tcp" THEN "data" ELSE "none"
    /\ slept = FALSE
    /\ read_attempted = TRUE

NextParse ==
    \/ CallRead
    \/ UsbReadline
    \/ TcpExtract
    \/ PublishData
    \/ Handler

SpecParse == InitParse /\ [][NextParse]_vars

(***************************************************************************)
(* The two transports on the same line: a connection of either type before *)
(* its first read, with one line of up to MaxLine bytes and its "\r\n" in  *)
(* flight.  The line holds no "\r\n" but may hold a "\r" or a "\n".        *)
(***************************************************************************)
MaxLine == 4

LineAlphabet == {CR, LF, SEMI, "1", BAD}

RECURSIVE LinesUpTo(_)
LinesUpTo(n) ==
    IF n = 0 THEN {<<>>}
    ELSE LET shorter == LinesUpTo(n - 1)
         IN  shorter \cup {Append(b, c) : b \in {x \in shorter : Len(x) = n - 1},
                                          c \in LineAlphabet}

TerminatedLines == {l \o CRLF : l \in {x \in LinesUpTo(MaxLine) : ~Contains(x, CRLF)}}

InitPaths ==
    /\ connection_type \in {"usb", "tcp"}
    /\ data_names \in {<<>>, <<"U">>, <<"U", "V">>}
    /\ meta = MetaFull
    /\ pc = "loop"
    /\ buffer = <<>>
    /\ response = <<>>
    /\ data = <<>>
    /\ exc = "none"
    /\ wire \in TerminatedLines
    /\ peer_closed = FALSE
    /\ sock_log = IF connection_type = "tcp" THEN LoginLog ELSE <<>>
    /\ pub_log = <<>>
    /\ stream = wire
    /\ lines_out = <<>>
    /\ last_recv = "none"
    /\ sent = <<>>
    /\ slept = TRUE
    /\ read_attempted = FALSE

NextPaths ==
    \/ CallRead
    \/ UsbReadline
    \/ TcpRecv
    \/ TcpExtract
    \/ PublishData
    \/ Handler

SpecPaths == InitPaths /\ [][NextPaths]_vars

(***************************************************************************)
(* The loop over several records: a connection of either type after        *)
(* construction and the sleep, with up to MaxRecords lines of the device   *)
(* in flight; the lines are good records with different numbers, a short   *)
(* line, a line with a token that is no number and a line that does not    *)
(* decode.                                                                 *)
(***************************************************************************)
MaxRecords == 2

LineOther == <<"y", ";", "2", ";", "1", ";", "2", "2", ";", "1">>
LoopLines == {LineGood, LineOther, LineShort, LineNaN, LineBad}

RECURSIVE RecordStreams(_)
RecordStreams(n) ==
    IF n = 0 THEN {<<>>}
    ELSE LET shorter == RecordStreams(n - 1)
         IN  shorter \cup {s \o l \o CRLF : s \in shorter, l \in LoopLines}

LoopConfigs == {c \in Configs : Len(c[1]) \in {2, 4}}

InitLoop ==
    /\ connection_type \in {"usb", "tcp"}
    /\ \E c \in LoopConfigs :
        /\ data_names = c[1]
        /\ meta = c[2]
    /\ pc = "loop"
    /\ buffer = <<>>
    /\ response = <<>>
    /\ data = <<>>
    /\ exc = "none"
    /\ wire \in RecordStreams(MaxRecords)
    /\ peer_closed = FALSE
    /\ sock_log = IF connection_type = "tcp" THEN LoginLog ELSE <<>>
    /\ pub_log = <<>>
    /\ stream = wire
    /\ lines_out = <<>>
    /\ last_recv = "none"
    /\ sent = <<>>
    /\ slept = TRUE
    /\ read_attempted = FALSE

NextLoop ==
    \/ CallRead
    \/ UsbReadline
    \/ TcpRecv
    \/ TcpExtract
    \/ ReadTransportError
    \/ PublishData
    \/ Handler

SpecLoop == InitLoop /\ [][NextLoop]_vars

(***************************************************************************)
(* Properties                                                              *)
(***************************************************************************)

LoopPcs == {"loop", "read", "publish", "handler"}

(* C1 (as claimed): once the connection is established and the loop has
   started its read cycles, no exception exits the loop: the run never ends
   with an exception after a read was attempted. *)
C1_NoExceptionExitsLoop == read_attempted => pc # "exited"

(* C2 (as claimed): on the TCP path a recv that returns zero bytes while the
   buffer holds no terminator makes the read fail: the program is never
   still inside the framing loop after a zero-byte recv. *)
C2_ZeroRecvFails == last_recv = "empty" => pc # "read"

(* the framing of a whole stream, byte by byte: the index of the first "\r"
   that is followed by "\n", from index i on; 0 when there is none *)
RECURSIVE ScanTerminator(_, _)
ScanTerminator(s, i) ==
    IF i + 1 > Len(s) THEN 0
    ELSE IF s[i] = CR /\ s[i + 1] = LF THEN i
    ELSE ScanTerminator(s, i + 1)

(* the stream behind its first n lines; "none" when it has fewer than n *)
RECURSIVE BehindLines(_, _)
BehindLines(s, n) ==
    IF n = 0 THEN [ok |-> TRUE, rest |-> s]
    ELSE LET t == ScanTerminator(s, 1)
         IN  IF t = 0 THEN [ok |-> FALSE, rest |-> <<>>]
             ELSE BehindLines(SubSeq(s, t + 2, Len(s)), n - 1)

(* the n-th line of the whole stream (it has at least n) *)
WholeLine(s, n) ==
    LET from == BehindLines(s, n - 1).rest
    IN  SubSeq(from, 1, ScanTerminator(from, 1) - 1)

(* C3: however the stream is cut into recv chunks, the lines the TCP path
   has taken are the first lines of the whole stream, in order, and the
   buffer followed by the bytes not yet received is exactly the stream
   behind those lines: no byte behind a terminator is lost or repeated. *)
C3_ChunkedFramingIsWholeFraming ==
    connection_type = "tcp" =>
        /\ BehindLines(stream, Len(lines_out)).ok
        /\ \A i \in 1..Len(lines_out) : lines_out[i] = WholeLine(stream, i)
        /\ buffer \o wire = BehindLines(stream, Len(lines_out)).rest

(* C3 witness: a line has been taken, and in the call that follows a recv
   chunk ended between the "\r" and the "\n" of the next terminator *)
C3_Witness ==
    /\ connection_type = "tcp"
    /\ lines_out # <<>>
    /\ pc = "read"
    /\ last_recv = "data"
    /\ buffer # <<>> /\ buffer[Len(buffer)] = CR
    /\ wire # <<>> /\ wire[1] = LF

(* a step in which read_and_parse_data takes a line *)
TookALine ==
    /\ pc = "read"
    /\ pc' \in {"publish", "handler"}
    /\ Len(lines_out') = Len(lines_out) + 1

(* C4 (as claimed): between calls of read_and_parse_data the buffer of a TCP
   connection never contains a "\r\n". *)
C4_NoTerminatorBetweenCalls ==
    (connection_type = "tcp" /\ pc # "read") => ~Contains(buffer, CRLF)

(* C4 (amended): a call that takes a line consumes the buffer up to and
   including the first terminator in it: the buffer before is the line, one
   terminator and the buffer after, the line holds no terminator, and
   outside a call the buffer does not change. *)
C4_ConsumedToFirstTerminator ==
    [][/\ (connection_type = "tcp" /\ TookALine) =>
            LET l == lines_out'[Len(lines_out')]
            IN  /\ buffer = l \o CRLF \o buffer'
                /\ ~Contains(l, CRLF)
       /\ (pc # "read") => buffer' = buffer]_vars

(* C4 witness: between two calls the buffer holds a complete line *)
C4_Witness ==
    /\ connection_type = "tcp"
    /\ pc = "loop"
    /\ lines_out # <<>>
    /\ Contains(buffer, CRLF)

(***************************************************************************)
(* The parser on composed lines (SpecParse).  sent holds the fields the    *)
(* device put on the wire: sent[1] is wire field 0, sent[2..5] the payload.*)
(***************************************************************************)
PayloadSent == SubSeq(sent, 2, Min(5, Len(sent)))

(* wire fields 1..4 exist and are numerals *)
PayloadNumeric ==
    /\ Len(sent) >= 5
    /\ \A i \in 2..5 : sent[i] \in NumTokens

(* the first call of read_and_parse_data has ended: it returned (the loop is
   about to publish) or it raised (the loop is in its except clause) *)
ReadEnded == lines_out # <<>> /\ pc \in {"publish", "handler"} /\ exc # ExcSink

(* the record of the first n names and the numbers of wire fields 1..n *)
RecordOfSent(n) ==
    [i \in 1..n |-> [key |-> data_names[i], value |-> NumberOf(sent[i + 1])]]

(* C5 (as claimed): every line with at least len(FieldMap) fields whose
   fields 1..4 are numeric gives a record with FieldMap's keys in order and
   the numbers of wire fields 1..4, whatever field 0 and the fields behind
   field 4 are. *)
C5_EveryNumericLineParses ==
    (ReadEnded /\ PayloadNumeric /\ Len(sent) >= Len(data_names)) =>
        /\ pc = "publish"
        /\ Len(data) = Len(data_names)
        /\ data = RecordOfSent(Len(data))

(* C5 (amended): when the line decodes as UTF-8 and FieldMap has at most 4
   names, a line whose fields 1..4 are numeric gives the record of
   FieldMap's keys, in order, with the numbers of wire fields
   1..len(FieldMap); field 0 and the fields behind field 4 have no effect
   beyond having to decode. *)
C5_DecodableNumericLineParses ==
    (ReadEnded /\ PayloadNumeric /\ Decodable(JoinSemi(sent))
              /\ Len(data_names) <= 4) =>
        /\ pc = "publish"
        /\ data = RecordOfSent(Len(data_names))

(* C5 witness: a line with a field to spare and the four names of __main__
   has been parsed into U, V, W, T *)
C5_Witness ==
    /\ pc = "publish"
    /\ PayloadNumeric
    /\ Len(sent) = 6
    /\ sent[2] # sent[3]
    /\ Len(data_names) = 4
    /\ Len(data) = 4
    /\ data[4].key = "T"

(* the payload is empty, shorter than FieldMap, or holds a token that is no
   numeral *)
PayloadInvalid ==
    \/ PayloadSent = <<>>
    \/ Len(PayloadSent) < Len(data_names)
    \/ \E i \in 1..Len(PayloadSent) : PayloadSent[i] \notin NumTokens

NoFieldPublish == \A i \in 1..Len(pub_log) : pub_log[i].name = "status"

(* C6: a line whose payload is empty, shorter than FieldMap or holds a
   non-numeric token makes read_and_parse_data raise without a record, and
   the cycle of the loop that read it publishes no field: only status. *)
C6_BadPayloadRaisesAndPublishesNoField ==
    (lines_out # <<>> /\ pc # "read" /\ PayloadInvalid) =>
        /\ pc \in {"handler", "loop", "exited"}
        /\ data = <<>>
        /\ pc = "handler" => exc \in {ExcIncomplete, ExcFloat, ExcDecode}
        /\ NoFieldPublish

(* C6 witness: a payload of numerals that is shorter than FieldMap was read
   and the cycle ended with its one status publish *)
C6_Witness ==
    /\ pc = "loop"
    /\ lines_out # <<>>
    /\ Len(PayloadSent) \in 1..(Len(data_names) - 1)
    /\ \A i \in 1..Len(PayloadSent) : PayloadSent[i] \in NumTokens
    /\ Len(pub_log) = 1
    /\ pub_log[1].value.s = ExcIncomplete

(***************************************************************************)
(* The TCP login                                                           *)
(***************************************************************************)
IsPrefix(a, b) == Len(a) <= Len(b) /\ SubSeq(b, 1, Len(a)) = a

(* the text holds "authentication successful" in any mix of cases *)
HoldsPhraseAnyCase(t) ==
    \E i \in 1..Len(t) :
        /\ i + Len(AuthPhrase) - 1 <= Len(t)
        /\ \A j \in 1..Len(AuthPhrase) : LowerChar(t[i + j - 1]) = AuthPhrase[j]

(* the bytes a recv step took off the wire *)
ChunkTaken == SubSeq(wire, 1, Len(wire) - Len(wire'))

(* the third recv of the login returns in this step *)
ThirdResponse == pc = "recv3" /\ Len(sock_log') = 6 /\ Len(sock_log) = 5

(* the order of the socket calls, and success only on the phrase *)
LoginOrder ==
    /\ connection_type = "tcp" => IsPrefix(sock_log', LoginLog)
    /\ (connection_type = "tcp" /\ pc' \in {"sleep"} \cup LoopPcs) =>
            sock_log' = LoginLog
    /\ (ThirdResponse /\ pc' = "sleep") => HoldsPhraseAnyCase(ChunkTaken)
    /\ read_attempted' => pc \in LoopPcs

(* C7 (as claimed): the socket calls of the TCP login are connect, recv,
   send username + "\r\n", recv, send password + "\r\n", recv, in that
   order; construction succeeds only if the third response holds
   "authentication successful" in any case, and every other third response,
   the empty one included, raises the authentication error before any data
   read is attempted. *)
C7_OtherResponseRaisesAuthError ==
    [][/\ LoginOrder
       /\ (ThirdResponse /\ ~HoldsPhraseAnyCase(ChunkTaken)) =>
            /\ pc' = "exited"
            /\ exc' = ExcAuth
            /\ ~read_attempted']_vars

(* C7 (amended): the same order and the same condition of success; every
   other third response that decodes as UTF-8, the empty one included,
   raises the authentication error, and one that does not decode raises the
   decode error of app.py 46, in both cases before any data read is
   attempted. *)
C7_LoginOrderAndRejection ==
    [][/\ LoginOrder
       /\ (ThirdResponse /\ ~HoldsPhraseAnyCase(ChunkTaken)) =>
            /\ pc' = "exited"
            /\ exc' = IF Decodable(ChunkTaken) THEN ExcAuth ELSE ExcDecode
            /\ ~read_attempted']_vars

(* C7 witness: the login succeeded on an answer in mixed case after the six
   calls *)
C7_Witness ==
    /\ connection_type = "tcp"
    /\ pc = "sleep"
    /\ sock_log = LoginLog
    /\ \E i \in 1..Len(response) : response[i] = "S"
    /\ ~read_attempted

(***************************************************************************)
(* The acquisition loop                                                    *)
(***************************************************************************)

(* C8 (as claimed): a failed cycle always goes back to reading: from the
   except clause of the loop the next step is the next cycle, there is no
   terminal failure state. *)
C8_FaultedReturnsToReading == [][pc = "handler" => pc' = "loop"]_vars

(* C9 (as claimed): between any two consecutive calls of
   read_and_parse_data a sleep occurs: whenever the loop calls it, a sleep
   has run since the call before. *)
C9_SleepBeforeEveryRead == [][(pc = "loop" /\ pc' = "read") => slept]_vars

(* C10: publish_data on an empty record makes exactly one call of
   plugin.publish, "NoData" on the status channel, and publishes no field. *)
C10_EmptyRecordPublishesNoDataOnce ==
    [][(pc = "publish" /\ data = <<>>) =>
            /\ Len(pub_log') = Len(pub_log) + 1
            /\ SubSeq(pub_log', 1, Len(pub_log)) = pub_log
            /\ pub_log'[Len(pub_log')].name = "status"
            /\ pub_log'[Len(pub_log')].value.s = "NoData"
            /\ pub_log'[Len(pub_log')].meta.timestamp \in Timestamps
            /\ pc' = IF pub_log'[Len(pub_log')].ok THEN "loop" ELSE "handler"]_vars

(* C10 witness: a cycle that read an empty record has ended with the one
   status publish *)
C10_Witness ==
    /\ pc = "loop"
    /\ read_attempted
    /\ lines_out # <<>>
    /\ data = <<>>
    /\ exc = "none"
    /\ Len(pub_log) = 1
    /\ pub_log[1].name = "status"
    /\ pub_log[1].value.s = "NoData"
    /\ pub_log[1].ok

(***************************************************************************)
(* publish_data                                                            *)
(***************************************************************************)

(* the calls of plugin.publish a step added to the log of the cycle *)
NewCalls == SubSeq(pub_log', Len(pub_log) + 1, Len(pub_log'))

(* the step is one call of publish_data on a record that is not empty *)
PublishesRecord == pc = "publish" /\ data # <<>>

(* the metadata table has a unit and a description for the name *)
MetaComplete(name) == name \in meta.units /\ name \in meta.description

(* C11: all field publishes of one call of publish_data carry the same
   timestamp, the one read of the clock at the start of the call, whatever
   the number of fields and whatever lookups fail in between; the status
   publish of a failed lookup is made without a timestamp. *)
C11_OneTimestampPerCall ==
    [][PublishesRecord =>
            \E ts \in Timestamps :
                \A i \in 1..Len(NewCalls) :
                    NewCalls[i].timestamp =
                        (IF NewCalls[i].name = "status" THEN 0 ELSE ts)]_vars

(* C11 witness: a call published fields before and behind a failed lookup,
   with the clock past its first value *)
C11_Witness ==
    /\ pc = "loop"
    /\ Len(pub_log) = 4
    /\ pub_log[1].name = "sonic3d.uwind"
    /\ pub_log[2].name = "status"
    /\ pub_log[4].name = "sonic3d.temp"
    /\ pub_log[4].timestamp = 2

(* what publish_data owes the i-th entry of the record: the field with its
   number, or the status with the text of the KeyError *)
CallOwed(i, c) ==
    IF MetaComplete(PublishName(data[i].key))
    THEN /\ c.name = PublishName(data[i].key)
         /\ c.value = NumVal(data[i].value)
         /\ c.meta.units = Units(c.name)
         /\ c.meta.description = Description(c.name)
    ELSE /\ c.name = "status"
         /\ c.value = StrVal(KeyErrorText(PublishName(data[i].key)))

(* C12 (as claimed): a failed metadata lookup for one field does not abort
   the others: publish_data makes one call per entry of the record, in
   order, the field itself when its unit and description are there and
   otherwise one status publish with the text of the KeyError, so that
   every remaining field is still published. *)
C12_EveryEntryGetsItsCall ==
    [][PublishesRecord =>
            /\ Len(NewCalls) = Len(data)
            /\ \A i \in 1..Len(NewCalls) :
                    /\ CallOwed(i, NewCalls[i])
                    /\ NewCalls[i].ok]_vars

(* C12 (amended): the same, as long as no call of plugin.publish raises:
   the sequence of calls, one per entry and in order, is never cut short by
   a lookup, only behind a call of plugin.publish that itself raised (a
   field publish or the status publish of the except clause), which ends
   publish_data with that exception. *)
C12_LookupFailureSkipsOnlyItsField ==
    [][PublishesRecord =>
            /\ Len(NewCalls) <= Len(data)
            /\ \A i \in 1..Len(NewCalls) :
                    /\ CallOwed(i, NewCalls[i])
                    /\ i < Len(NewCalls) => NewCalls[i].ok
            /\ NewCalls # <<>>
            /\ Len(NewCalls) < Len(data) => ~NewCalls[Len(NewCalls)].ok
            /\ pc' = IF NewCalls[Len(NewCalls)].ok THEN "loop" ELSE "handler"]_vars

(* C12 witness: the unit of the second field is missing; the cycle ended
   with U published, one status for V, and W and T published *)
C12_Witness ==
    /\ pc = "loop"
    /\ "sonic3d.vwind" \notin meta.units
    /\ Len(pub_log) = 4
    /\ pub_log[1].name = "sonic3d.uwind"
    /\ pub_log[2].value.s = KeyErrorText("sonic3d.vwind")
    /\ pub_log[3].name = "sonic3d.wwind"
    /\ pub_log[4].name = "sonic3d.temp"
    /\ \A i \in 1..4 : pub_log[i].ok

(***************************************************************************)
(* The life of the connection                                              *)
(***************************************************************************)
ConstructionPcs == {"start", "recv1", "send_user", "recv2", "send_pass", "recv3"}

EstablishmentFailures == {ExcTransport, ExcDecode, ExcAuth, ExcUnsupported}

ConnectCalls == {i \in 1..Len(sock_log) : sock_log[i].op = "connect"}

(* C13: the connection is established exactly once per run and before any
   read.  Construction is never entered again once it was left, by failure
   or by success, and a socket is connected at most once; while it lasts no
   read was attempted and nothing was published; when it fails the run ends
   there, with the failure as the exception that left run_device_interface,
   no read attempted and nothing published, and an ended run stays ended. *)
C13_EstablishedOnceBeforeAnyRead ==
    [][/\ pc # "start" => pc' # "start"
       /\ pc' \in LoopPcs => pc \in LoopPcs \cup {"sleep"}
       /\ Cardinality(ConnectCalls) <= 1
       /\ pc \in ConstructionPcs => (~read_attempted /\ pub_log = <<>>)
       /\ (pc \in ConstructionPcs /\ pc' \notin ConstructionPcs) =>
            \/ pc' = "sleep" /\ exc' = "none"
            \/ /\ pc' = "exited"
               /\ exc' \in EstablishmentFailures
               /\ ~read_attempted'
               /\ pub_log' = <<>>
       /\ pc = "exited" => pc' = "exited"]_vars

(* C13 witness: the device rejected the login; the run has ended after the
   six socket calls with the authentication error, no read and no publish *)
C13_Witness ==
    /\ pc = "exited"
    /\ exc = ExcAuth
    /\ sock_log = LoginLog
    /\ ~read_attempted
    /\ pub_log = <<>>

(***************************************************************************)
(* The two transports on the same line (SpecPaths)                         *)
(***************************************************************************)

(* the line in flight, without its terminator *)
LineInFlight == SubSeq(stream, 1, Len(stream) - 2)

(* the first call of read_and_parse_data has just ended, on the line *)
FirstReadEnded ==
    /\ Len(lines_out) = 1
    /\ pc \in {"publish", "handler"}
    /\ exc \notin {ExcSink, ExcTransport}

(* what the other path computes from the same bytes: the TCP path parses
   the bytes before the first "\r\n", the USB path the bytes up to the first
   "\n" *)
OtherPathResult ==
    IF connection_type = "usb"
    THEN ParseLine(SplitFirst(stream).line, data_names)
    ELSE ParseLine(SubSeq(stream, 1, IndexOf(stream, <<LF>>)), data_names)

SameAsOtherPath ==
    /\ (pc = "publish") = OtherPathResult.ok
    /\ pc = "publish" => data = OtherPathResult.data

(* C14 (as claimed): for the same "\r\n"-terminated line and the same
   FieldMap the USB path and the TCP path both return the same record, or
   both raise. *)
C14_PathsAgreeOnEveryLine == FirstReadEnded => SameAsOtherPath

(* C14 (amended): the two paths agree on every "\r\n"-terminated line that
   holds no "\n" before its terminator: both return the same record, or
   both raise.  (readline ends the USB line at the first "\n".) *)
C14_PathsAgreeOnLinesWithoutLF ==
    (FirstReadEnded /\ ~Contains(LineInFlight, <<LF>>)) => SameAsOtherPath

(* C14 witness: the USB path returned a record of one entry from a line
   that holds a "\r" of its own and no "\n" *)
C14_Witness ==
    /\ connection_type = "usb"
    /\ FirstReadEnded
    /\ pc = "publish"
    /\ Len(data) = 1
    /\ Contains(LineInFlight, <<CR>>)
    /\ ~Contains(LineInFlight, <<LF>>)

(***************************************************************************)
(* The publishes of a cycle of the loop                                    *)
(***************************************************************************)

(* a cycle has ended and the loop is about to start the next one; exc is
   the exception of the cycle, "none" when it had none *)
CycleEnded == pc = "loop" /\ read_attempted

StatusIndexes == {i \in 1..Len(pub_log) : pub_log[i].name = "status"}

(* the cycle published the four fields of __main__, in order, and no more *)
FourFieldsPublished ==
    /\ Len(pub_log) = 4
    /\ \A i \in 1..4 :
            /\ pub_log[i].name = PublishName(data_names[i])
            /\ pub_log[i].ok

FourNamesFullTable == Len(data_names) = 4 /\ meta = MetaFull

(* the read of the cycle returned a record *)
ReadReturned == exc \in {"none", ExcSink} /\ lines_out # <<>>

(* C15 (as claimed): a failed cycle (read_and_parse_data raised, or an
   exception escaped publish_data) has exactly one status publish, with the
   text of that exception; a cycle whose read returned a record, with the
   four names and the complete table, has one publish per name and no
   status publish. *)
C15_OneStatusPerFailedCycle ==
    CycleEnded =>
        /\ exc # "none" =>
                /\ Cardinality(StatusIndexes) = 1
                /\ \A i \in StatusIndexes : pub_log[i].value = StrVal(exc)
        /\ (ReadReturned /\ FourNamesFullTable) =>
                /\ FourFieldsPublished
                /\ StatusIndexes = {}

(* C15 (amended): the except clause of the loop makes exactly one status
   publish, with the text of the exception it caught; with a FieldMap that
   is not empty and the complete table it is the only status publish of a
   failed cycle.  A cycle with the four names and the complete table whose
   read returned a record and whose publish_data returned has one publish
   per name, in order, and no status publish. *)
C15_OneHandlerStatusPerFailedCycle ==
    /\ [](CycleEnded =>
            /\ (exc # "none" /\ data_names # <<>> /\ meta = MetaFull) =>
                    /\ Cardinality(StatusIndexes) = 1
                    /\ pub_log[Len(pub_log)].value = StrVal(exc)
            /\ (exc = "none" /\ FourNamesFullTable) =>
                    /\ FourFieldsPublished
                    /\ StatusIndexes = {})
    /\ [][pc = "handler" =>
            /\ Len(NewCalls) = 1
            /\ NewCalls[1].name = "status"
            /\ NewCalls[1].value = StrVal(exc)
            /\ NewCalls[1].timestamp = 0]_vars

(* C15 witness: with the four names and the complete table the second
   field publish raised; the cycle ended with one field published and one
   status publish carrying the text of that exception *)
C15_Witness ==
    /\ CycleEnded
    /\ FourNamesFullTable
    /\ exc = ExcSink
    /\ Len(pub_log) = 3
    /\ pub_log[1].ok
    /\ ~pub_log[2].ok
    /\ pub_log[3] = StatusCall(ExcSink)

(***************************************************************************)
(* The loop over several records (SpecLoop)                                *)
(***************************************************************************)

(* record k of the run: what the k-th line of the stream parses to *)
RecordOfLine(k) == ParseLine(WholeLine(stream, k), data_names)

FieldCallIndexes == {i \in 1..Len(pub_log) : pub_log[i].name # "status"}

(* the place of a published name in FieldMap *)
PlaceOf(name) == CHOOSE i \in 1..Len(data_names) : PublishName(data_names[i]) = name

(* the field publishes of the cycle's log are publishes of record k, each
   with the number the record has for it, in the order of FieldMap *)
FieldPublishesOfRecord(k) ==
    /\ \A i \in FieldCallIndexes :
            /\ \E n \in 1..Len(data_names) : PublishName(data_names[n]) = pub_log[i].name
            /\ RecordOfLine(k).ok
            /\ pub_log[i].value = NumVal(RecordOfLine(k).data[PlaceOf(pub_log[i].name)].value)
    /\ \A i, j \in FieldCallIndexes :
            i < j => PlaceOf(pub_log[i].name) < PlaceOf(pub_log[j].name)

(* C16: at most one transport read is in flight and publishes are never
   reordered: a read starts only when the cycle before it has ended, every
   call takes at most one line, nothing is published while a read is in
   flight, the field publishes of a cycle are publishes of the record that
   cycle read, in FieldMap order, and with the complete table and no
   exception all of them are made before the next read starts. *)
C16_OneReadInFlightPublishesInOrder ==
    /\ [](/\ pc = "read" => pub_log = <<>>
          /\ FieldCallIndexes # {} => lines_out # <<>>
          /\ lines_out # <<>> => FieldPublishesOfRecord(Len(lines_out))
          /\ (CycleEnded /\ exc = "none" /\ meta = MetaFull) =>
                Cardinality(FieldCallIndexes) = Len(data_names))
    /\ [][/\ (pc # "read" /\ pc' = "read") => (pc = "loop" /\ pub_log' = <<>>)
          /\ lines_out' # lines_out =>
                (pc = "read" /\ pc' # "read" /\ Len(lines_out') = Len(lines_out) + 1)
          /\ pub_log' \notin {pub_log, <<>>} => pc \in {"publish", "handler"}]_vars

(* C16 witness: the second record, with other numbers than the first, has
   been published in full, U, V, W, T *)
C16_Witness ==
    /\ CycleEnded
    /\ exc = "none"
    /\ Len(lines_out) = 2
    /\ RecordOfLine(1).ok
    /\ RecordOfLine(2).ok
    /\ RecordOfLine(1).data # RecordOfLine(2).data
    /\ FourFieldsPublished
    /\ pub_log[1].value = NumVal(RecordOfLine(2).data[1].value)

(* the call of read_and_parse_data that ends in this step ends as the k-th
   line of the stream makes it end: with its record, or with an exception *)
EndsAsLine(k) ==
    IF RecordOfLine(k).ok
    THEN pc' = "publish" /\ data' = RecordOfLine(k).data
    ELSE pc' = "handler" /\ data' = <<>> /\ exc' = RecordOfLine(k).exc

(* C17: TCP framing splits at the first terminator and consumes exactly one
   line per call: the k-th call that takes a line takes the k-th line of
   the stream, removes that line and one terminator from the front of the
   buffer and nothing else, and ends as that line makes it end, also when
   one recv chunk carried several complete lines; and a recv is made only
   while the buffer contains no "\r\n". *)
C17_OneLinePerCallInStreamOrder ==
    [][connection_type = "tcp" =>
            /\ TookALine =>
                    /\ lines_out'[Len(lines_out')] = WholeLine(stream, Len(lines_out'))
                    /\ buffer = WholeLine(stream, Len(lines_out')) \o CRLF \o buffer'
                    /\ wire' = wire
                    /\ EndsAsLine(Len(lines_out'))
            /\ wire' # wire =>
                    /\ pc = "read" /\ pc' = "read"
                    /\ ~Contains(buffer, CRLF)
                    /\ buffer' \o wire' = buffer \o wire]_vars

(* C17 witness: one recv chunk carried two complete lines; the second call
   made no recv and returned the record of the second line *)
C17_Witness ==
    /\ connection_type = "tcp"
    /\ pc = "publish"
    /\ Len(lines_out) = 2
    /\ last_recv = "none"
    /\ RecordOfLine(1).ok
    /\ data = RecordOfLine(2).data
    /\ data # RecordOfLine(1).data

ParseFailures == {ExcDecode, ExcIncomplete, ExcFloat}

(* C18: on the TCP path a line that fails decoding, the field-count check
   or the conversion is out of the buffer when the error is raised: in the
   except clause the buffer and the bytes not yet received are exactly the
   stream behind the bad line, every line is taken once, and the call after
   a bad line ends as the following line of the stream makes it end. *)
C18_BadLineLeavesTheBuffer ==
    /\ []((connection_type = "tcp" /\ pc = "handler" /\ exc \in ParseFailures) =>
            /\ lines_out # <<>>
            /\ ~RecordOfLine(Len(lines_out)).ok
            /\ buffer \o wire = BehindLines(stream, Len(lines_out)).rest)
    /\ [](connection_type = "tcp" =>
            \A i \in 1..Len(lines_out) : lines_out[i] = WholeLine(stream, i))
    /\ [][(connection_type = "tcp" /\ TookALine /\ lines_out # <<>>
                /\ ~RecordOfLine(Len(lines_out)).ok) =>
            EndsAsLine(Len(lines_out) + 1)]_vars

(* C18 witness: the first line of the stream was bad; the second call
   returned the record of the second line *)
C18_Witness ==
    /\ connection_type = "tcp"
    /\ pc = "publish"
    /\ Len(lines_out) = 2
    /\ ~RecordOfLine(1).ok
    /\ RecordOfLine(2).ok
    /\ data = RecordOfLine(2).data

(***************************************************************************)
(* The buffer after the login                                              *)
(***************************************************************************)

(* a recv of the login returns in this step *)
HandshakeRecv == pc \in {"recv1", "recv2", "recv3"} /\ Len(sock_log') = Len(sock_log) + 1

(* C19: the framing buffer is empty when a TCP DeviceConnection finishes
   construction: no step of __init__ puts a byte in the buffer; what a
   handshake recv returns, data bytes behind the authentication response
   included, is off the wire and in no buffer; and the first read takes its
   line from the bytes that were still in flight when the third recv
   returned. *)
C19_HandshakeBytesNeverBuffered ==
    /\ []((connection_type = "tcp" /\ ~read_attempted) => buffer = <<>>)
    /\ []((connection_type = "tcp" /\ pc \in LoopPcs /\ Len(lines_out) = 1) =>
            lines_out[1] = WholeLine(stream, 1))
    /\ [][/\ HandshakeRecv =>
                /\ wire = ChunkTaken \o wire'
                /\ ChunkTaken # <<>> \/ peer_closed
                /\ buffer' = <<>>
                /\ pc' = "sleep" => (stream' = wire' /\ response' = ChunkTaken)
          /\ (connection_type = "tcp" /\ pc = "read" /\ lines_out = <<>>) =>
                /\ buffer' \o wire' = buffer \o wire \/ TookALine
                /\ buffer \o wire = stream]_vars

(* C19 witness: the third recv returned the authentication response
   together with the first bytes of a data line; construction has finished
   with the buffer empty and only the rest of the line in flight *)
C19_Witness ==
    /\ connection_type = "tcp"
    /\ pc = "sleep"
    /\ AuthAccepted(response)
    /\ Contains(response, <<SEMI>>)
    /\ buffer = <<>>
    /\ wire # <<>>
    /\ stream = wire
    /\ \A l \in SampleLines : stream # l \o CRLF

(***************************************************************************)
(* The size of the record (SpecParse)                                      *)
(***************************************************************************)
NoDataPublished == \E i \in 1..Len(pub_log) : pub_log[i].value.s = "NoData"

(* C20: with a FieldMap of 1 to 4 names every record read_and_parse_data
   returns has exactly len(FieldMap) entries, the names of FieldMap in
   order, so that publish_data never gets an empty record and "NoData" is
   never published; with a FieldMap of more than 4 names every line is
   rejected: no call returns a record. *)
C20_RecordHasAllNamesOrLineRejected ==
    /\ Len(data_names) \in 1..4 =>
            /\ pc = "publish" =>
                    /\ Len(data) = Len(data_names)
                    /\ \A i \in 1..Len(data) : data[i].key = data_names[i]
            /\ ~NoDataPublished
    /\ Len(data_names) > 4 =>
            /\ pc # "publish"
            /\ data = <<>>
            /\ pub_log # <<>> => NoFieldPublish
            /\ (lines_out # <<>> /\ pc = "handler") => exc \in {ExcIncomplete, ExcDecode}

(* C20 witness: FieldMap has two names and the line four numbers; the
   record returned had the two names and both were published *)
C20_Witness ==
    /\ Len(data_names) = 2
    /\ PayloadNumeric
    /\ pc = "loop"
    /\ Len(data) = 2
    /\ Len(pub_log) = 2
    /\ pub_log[2].name = PublishName("V")
    /\ pub_log[2].ok

====
